---------------------------- MODULE Spec2Model ----------------------------
(***************************************************************************)
(* Model of tools/xtu-build-new/xtu-build.py: the first pass of the XTU    *)
(* analysis.  The script loads a JSON compilation database into two        *)
(* deduplicated relations, removes three aggregate output files, runs one  *)
(* generate_ast unit per source in a process pool, waits for that pool to  *)
(* drain, and then runs one map_functions unit per command in a second     *)
(* pool.                                                                   *)
(*                                                                         *)
(* Python strings are modelled as sequences of one-character strings, so   *)
(* that the regular expression, split(), join, realpath and the path       *)
(* arithmetic are computed the way the code computes them.                 *)
(***************************************************************************)
EXTENDS Naturals, Integers, Sequences, FiniteSets, TLC

(***************************************************************************)
(* Bounds of the model.                                                    *)
(***************************************************************************)
\* longest compilation database of the pipeline specification (records)
MaxRecords == 2
\* longest compilation database of the loader specification (records)
MaxLoadRecords == 4
\* widest pool (the -j option)
MaxThreads == 2
\* most tokens of a command string given to get_command_arguments
MaxTokens == 4
\* most run names given to cc-bug-stats.py with -n
MaxNames == 2
\* most result records in a reply to a "results" query
MaxResults == 2

(***************************************************************************)
(* Strings.                                                                *)
(***************************************************************************)
\* re.IGNORECASE folds case; only the letters of the suffixes matter
Lower(ch) ==
  CASE ch = "C" -> "c"
    [] ch = "P" -> "p"
    [] ch = "X" -> "x"
    [] OTHER -> ch

LowerStr(s) == [k \in 1..Len(s) |-> Lower(s[k])]

EndsWith(s, suf) ==
  /\ Len(s) >= Len(suf)
  /\ SubSeq(s, Len(s) - Len(suf) + 1, Len(s)) = suf

StartsWith(s, pre) ==
  /\ Len(s) >= Len(pre)
  /\ SubSeq(s, 1, Len(pre)) = pre

\* the alternatives of the group in ".*\.(cc|c|cxx|cpp)$"
SrcSuffixes ==
  { <<".", "c", "c">>, <<".", "c">>, <<".", "c", "x", "x">>, <<".", "c", "p", "p">> }

\* what "$" matches: the end of the string, or a newline that ends it
DollarTails == { << >>, <<"\n">> }

\* src_pattern.match(s): ".*" (any characters but newlines, from the start
\* of s), a dot and one of the suffixes, then "$"
src_pattern(s) ==
  \E suf \in SrcSuffixes : \E tail \in DollarTails :
    /\ EndsWith(LowerStr(s), suf \o tail)
    /\ \A k \in 1..(Len(s) - Len(suf) - Len(tail)) : s[k] # "\n"

\* arg.find(ch) != -1
Contains(s, ch) == \E k \in 1..Len(s) : s[k] = ch

\* str.rfind(ch): the last (1-based) position of ch, 0 when there is none
\* (Python's 0-based result plus one, which is the index the slice starts after)
RFind(s, ch) ==
  IF Contains(s, ch)
  THEN CHOOSE k \in 1..Len(s) : s[k] = ch /\ \A m \in (k+1)..Len(s) : s[m] # ch
  ELSE 0

Whitespace == {" ", "\n", "\t"}

IsSpace(ch) == ch \in Whitespace

\* str.strip()
RECURSIVE LStrip(_)
LStrip(s) == IF s # <<>> /\ IsSpace(Head(s)) THEN LStrip(Tail(s)) ELSE s

RECURSIVE RStrip(_)
RStrip(s) ==
  IF s # <<>> /\ IsSpace(s[Len(s)]) THEN RStrip(SubSeq(s, 1, Len(s) - 1)) ELSE s

Strip(s) == RStrip(LStrip(s))

\* the pieces of s between characters of seps, empty pieces included
RECURSIVE SplitOn(_, _, _)
SplitOn(s, seps, cur) ==
  IF s = <<>> THEN <<cur>>
  ELSE IF Head(s) \in seps THEN <<cur>> \o SplitOn(Tail(s), seps, <<>>)
  ELSE SplitOn(Tail(s), seps, Append(cur, Head(s)))

\* cmd.split(): split on runs of whitespace, no empty tokens
Split(s) == SelectSeq(SplitOn(s, Whitespace, <<>>), LAMBDA t : t # <<>>)

\* string.join(words, sep)
RECURSIVE Join(_, _)
Join(words, sep) ==
  IF words = <<>> THEN <<>>
  ELSE IF Len(words) = 1 THEN words[1]
  ELSE words[1] \o sep \o Join(Tail(words), sep)

(***************************************************************************)
(* Paths (os.path, POSIX).                                                 *)
(***************************************************************************)
\* s[1:]
Slice1(s) == IF s = <<>> THEN <<>> ELSE Tail(s)

\* os.path.join(a, b)
PathJoin(a, b) ==
  IF StartsWith(b, <<"/">>) THEN b
  ELSE IF a = <<>> \/ EndsWith(a, <<"/">>) THEN a \o b
  ELSE a \o <<"/">> \o b

\* the working directory of the run
Cwd == <<"/", "w">>

\* os.path.normpath on the components of an absolute path: empty and "."
\* components go, ".." removes the component before it
RECURSIVE NormComps(_, _)
NormComps(comps, acc) ==
  IF comps = <<>> THEN acc
  ELSE IF Head(comps) = <<>> \/ Head(comps) = <<".">>
    THEN NormComps(Tail(comps), acc)
  ELSE IF Head(comps) = <<".", ".">>
    THEN NormComps(Tail(comps),
                   IF acc = <<>> THEN <<>> ELSE SubSeq(acc, 1, Len(acc) - 1))
  ELSE NormComps(Tail(comps), Append(acc, Head(comps)))

\* os.path.realpath(p) in a tree without symbolic links: the path made
\* absolute against the working directory and normalised
realpath(p) ==
  LET abs == IF StartsWith(p, <<"/">>) THEN p ELSE PathJoin(Cwd, p)
  IN  <<"/">> \o Join(NormComps(SplitOn(abs, {"/"}, <<>>), <<>>), <<"/">>)

\* head.rstrip('/')
RECURSIVE RStripSlash(_)
RStripSlash(h) ==
  IF h # <<>> /\ h[Len(h)] = "/" THEN RStripSlash(SubSeq(h, 1, Len(h) - 1)) ELSE h

\* os.path.dirname(p)
dirname(p) ==
  LET head == SubSeq(p, 1, RFind(p, "/"))
  IN  IF head # <<>> /\ \E k \in 1..Len(head) : head[k] # "/"
      THEN RStripSlash(head) ELSE head

\* mainargs.xtuindir, at its default ".xtu"
xtuindir == <<".", "x", "t", "u">>

\* the artifact path computed by generate_ast
ast_path(arch, source) ==
  PathJoin(xtuindir,
           Slice1(PathJoin(<<"/", "a", "s", "t", "/">> \o arch,
                           Slice1(realpath(source)) \o <<".", "a", "s", "t">>)))

\* arch_output[arch_output.rfind('@')+1:].strip()
ArchOf(arch_output) ==
  Strip(SubSeq(arch_output, RFind(arch_output, "@") + 1, Len(arch_output)))

(***************************************************************************)
(* Inputs: the file and command strings of the compilation databases.      *)
(***************************************************************************)
F_a    == <<"a", ".", "c", "p", "p">>
F_dota == <<".", "/", "a", ".", "c", "p", "p">>
F_b    == <<"b", ".", "c", "p", "p">>
F_h    == <<"a", ".", "h">>

\* "cc -O a.cpp"
CC1 == <<"c", "c", " ", "-", "O", " ">> \o F_a
\* "E=1 cc -D=1 a.cpp -g"
CC2 == <<"E", "=", "1", " ", "c", "c", " ", "-", "D", "=", "1", " ">> \o F_a
         \o <<" ", "-", "g">>

Files == {F_a, F_dota, F_b, F_h}

\* "A.CPP" and "a.c\n": a suffix in capitals, and a name that ends in a
\* newline
F_up == <<"A", ".", "C", "P", "P">>
F_nl == <<"a", ".", "c", "\n">>

\* every file name of the model
Paths == Files \cup {F_up, F_nl}
Commands == {CC1, CC2}

\* a compile record of the database (the fields the script reads)
Records == [file : Files, command : Commands]

\* the records of the databases the whole pipeline is run on: those whose
\* file is a source file
SourceRecords == {r \in Records : r.file # F_h}

\* records of source files and of other files, for the databases the
\* filtering of the loader is followed through the pipeline on
FilterRecords == [file : {F_a, F_up, F_h, F_nl}, command : Commands]

\* the records of the databases the order of the units is followed on
OrderRecords == [file : {F_a, F_b}, command : Commands]

\* the records of the databases OutputReset is followed on
ResetRecords == { [file |-> F_a, command |-> CC1], [file |-> F_b, command |-> CC2] }

\* all sequences over S of length at most n
BoundedSeq(S, n) == UNION {[1..m -> S] : m \in 0..n}

\* the tokens of the command strings get_command_arguments is tried on: a
\* command word, a define (with '='), a source file, a flag, and an
\* assignment that ends like a source file
T_CC  == <<"C", "C">>
T_DX  == <<"-", "D", "X", "=", "1">>
T_foo == <<"f", "o", "o", ".", "c", "p", "p">>
T_O2  == <<"-", "O", "2">>
T_V   == <<"V", "=", "x", ".", "C">>

ArgTokens == {T_CC, T_DX, T_foo, T_O2, T_V}

\* how the tokens are set apart: one blank, or a tab and a blank
ArgSeparators == { <<" ">>, <<"\t", " ">> }

\* the command strings made of at most MaxTokens of these tokens
ArgCommands ==
  {Join(toks, sep) : toks \in BoundedSeq(ArgTokens, MaxTokens), sep \in ArgSeparators}

\* "CC -DX=1 foo.cpp -O2"
CCExample == Join(<<T_CC, T_DX, T_foo, T_O2>>, <<" ">>)

\* every command string of the model
AllCommands == Commands \cup ArgCommands

\* what the architecture extractor may print
ArchOutputs == { <<"@", "i">>, <<"t", "@", "m", "\n">>, <<"i", "\n">> }

(***************************************************************************)
(* get_command_arguments.                                                  *)
(***************************************************************************)
\* (variant) had_command is set before the token is looked at, so the
\* command word itself is kept
RECURSIVE FilterArgsKeepingWord(_, _)
FilterArgsKeepingWord(toks, had_command) ==
  IF toks = <<>> THEN <<>>
  ELSE (IF (had_command \/ ~Contains(Head(toks), "=")) /\ ~src_pattern(Head(toks))
        THEN <<Head(toks)>> ELSE <<>>)
         \o FilterArgsKeepingWord(Tail(toks),
                                  had_command \/ ~Contains(Head(toks), "="))

\* the loop body over the tokens: a token is kept when the command word has
\* been passed and the token is no source file; the first token without
\* '=' is the command word
RECURSIVE FilterArgs(_, _)
FilterArgs(toks, had_command) ==
  IF toks = <<>> THEN <<>>
  ELSE (IF had_command /\ ~src_pattern(Head(toks)) THEN <<Head(toks)>> ELSE <<>>)
         \o FilterArgs(Tail(toks), had_command \/ ~Contains(Head(toks), "="))

get_command_arguments(cmd) == FilterArgs(Split(cmd), FALSE)

(***************************************************************************)
(* The string functions on the strings of the model, tabulated: an action  *)
(* looks its strings up here, which is the function application of the     *)
(* code evaluated once.                                                    *)
(***************************************************************************)
\* the architectures the extractor's outputs resolve to
Archs == {ArchOf(o) : o \in ArchOutputs}

\* src_pattern.match(file)
IsSource == [f \in Paths |-> src_pattern(f)]

\* get_command_arguments(cmd)
Arguments == [c \in AllCommands |-> get_command_arguments(c)]

\* the architecture cut out of an output of the extractor
Architecture == [o \in ArchOutputs |-> ArchOf(o)]

\* ast_path and os.path.dirname(ast_path)
AstPath == [a \in Archs, f \in Paths |-> ast_path(a, f)]
AstDir  == [a \in Archs, f \in Paths |-> dirname(ast_path(a, f))]

(***************************************************************************)
(* State.                                                                  *)
(***************************************************************************)
VARIABLES
  buildlog,         \* the parsed compilation database (a list of records)
  threads,          \* mainargs.threads, the width of both pools
  pc,               \* where the main script is
  i,                \* the position of the loop the main script is in
  src_2_cmd,        \* source file -> the first command seen for it
  src_order,        \* the keys of src_2_cmd in insertion order
  cmd_2_src,        \* command -> the list of files recorded under it
  cmd_order,        \* the keys of cmd_2_src in insertion order
  aggr,             \* the three aggregate files of the XTU directory
  undeletable,      \* the aggregate files os.remove fails on although they
                    \* exist (a directory of that name, a read-only directory)
  dirs,             \* the directories made under the XTU directory
  ast_queue,        \* ast_workers: tasks submitted and not yet taken
  ast_running,      \* ast_workers: the units its processes are executing
  funcmap_queue,    \* funcmap_workers: tasks submitted and not yet taken
  funcmap_running,  \* funcmap_workers: the units its processes are executing
  submitted,        \* the arguments of the apply_async calls made, per pool
  returned,         \* the units that have returned, and whether they raised
  calls,            \* the external tool invocations made so far
  \* cc-bug-stats.py
  names,            \* args.names, the runs asked for with -n
  stage,            \* where cc-bug-stats.py is
  runs_reply,       \* what the "runs" query gave
  project_names,    \* the runs selected for the report
  project,          \* the position of "for project in project_names"
  queried,          \* the "results" queries made so far, with what they gave
  reported,         \* the runs whose metrics have been printed
  exit_code         \* the exit status of cc-bug-stats.py, once it has ended

\* the state of cc-bug-stats.py
bugstats ==
  << names, stage, runs_reply, project_names, project, queried, reported,
     exit_code >>

vars ==
  << buildlog, threads, pc, i, src_2_cmd, src_order, cmd_2_src, cmd_order,
     aggr, undeletable, dirs, ast_queue, ast_running, funcmap_queue,
     funcmap_running, submitted, returned, calls, bugstats >>

\* what no step of the loaded pipeline changes: its inputs, and the other
\* program
setting == << buildlog, threads, undeletable, bugstats >>

relations == << src_2_cmd, src_order, cmd_2_src, cmd_order >>
filesystem == << aggr, dirs >>
pools ==
  << ast_queue, ast_running, funcmap_queue, funcmap_running, submitted, returned,
     calls >>

\* the three files cleared before the pools run
AggregateFiles == << "cfg.txt", "definedFns.txt", "externalFns.txt" >>

AggregateNames == {AggregateFiles[k] : k \in 1..Len(AggregateFiles)}

\* who wrote what is in an aggregate file: the map_functions unit k of this
\* run, or (0) an earlier run
EarlierRun == 0

\* an aggregate file that does not exist / one left by an earlier run
Absent == [exists |-> FALSE, by |-> {}]
Stale  == [exists |-> TRUE, by |-> {EarlierRun}]

(***************************************************************************)
(* The loading loop.                                                       *)
(***************************************************************************)
\* (variant) the last command seen for a file is kept
AddSourceCommandLast(s2c, file, command) ==
  IF file \notin DOMAIN s2c THEN s2c @@ (file :> command)
  ELSE [s2c EXCEPT ![file] = command]

\* lines 39-40: the first command seen for a file is kept
AddSourceCommand(s2c, file, command) ==
  IF file \notin DOMAIN s2c THEN s2c @@ (file :> command) ELSE s2c

\* (variant) a new file is put at the front of the order
AddSourceOrderFront(s2c, order, file) ==
  IF file \notin DOMAIN s2c THEN <<file>> \o order ELSE order

\* lines 39, 41
AddSourceOrder(s2c, order, file) ==
  IF file \notin DOMAIN s2c THEN Append(order, file) ELSE order

\* (variant) a file is listed once in a group
AddCommandSourceOnce(c2s, file, command) ==
  IF command \notin DOMAIN c2s
  THEN c2s @@ (command :> <<file>>)
  ELSE IF \E k \in 1..Len(c2s[command]) : c2s[command][k] = file
  THEN c2s
  ELSE [c2s EXCEPT ![command] = Append(@, file)]

\* (variant) the group of a new command starts empty
AddCommandSourceEmptyGroup(c2s, file, command) ==
  IF command \notin DOMAIN c2s
  THEN c2s @@ (command :> << >>)
  ELSE [c2s EXCEPT ![command] = Append(@, file)]

\* (variant) the group is replaced, not extended
AddCommandSourceReplace(c2s, file, command) ==
  IF command \notin DOMAIN c2s
  THEN c2s @@ (command :> <<file>>)
  ELSE [c2s EXCEPT ![command] = <<file>>]

\* lines 42-46: the file joins the group of its command
AddCommandSource(c2s, file, command) ==
  IF command \notin DOMAIN c2s
  THEN c2s @@ (command :> <<file>>)
  ELSE [c2s EXCEPT ![command] = Append(@, file)]

\* lines 42, 44
AddCommandOrder(c2s, order, command) ==
  IF command \notin DOMAIN c2s THEN Append(order, command) ELSE order

\* (variant) the aggregate files are removed before the database is read
LoadDatabaseAfterReset ==
  /\ pc = "open"
  /\ \/ /\ pc' = "aborted"
        /\ aggr' = [f \in AggregateNames |-> Absent]
        /\ UNCHANGED buildlog
     \/ /\ \E b \in BoundedSeq(ResetRecords, MaxRecords) : buildlog' = b
        /\ pc' = "load"
        /\ UNCHANGED aggr
  /\ UNCHANGED << threads, undeletable, bugstats, i, relations, dirs, pools >>

\* lines 28-30: the database is opened and parsed.  open raises IOError
\* when the file cannot be read and json.load raises ValueError when its
\* text is no JSON: nothing catches them, the script ends with a traceback.
\* Otherwise buildlog is the parsed list.
LoadDatabase ==
  /\ pc = "open"
  /\ \/ /\ pc' = "aborted"
        /\ UNCHANGED buildlog
     \/ /\ \E b \in BoundedSeq(ResetRecords, MaxRecords) : buildlog' = b
        /\ pc' = "load"
  /\ UNCHANGED << threads, undeletable, bugstats, i, relations, filesystem, pools >>

\* one iteration of "for step in buildlog"
LoadStep ==
  /\ pc = "load"
  /\ i <= Len(buildlog)
  /\ LET step == buildlog[i] IN
       IF IsSource[step.file]
       THEN /\ src_2_cmd' = AddSourceCommand(src_2_cmd, step.file, step.command)
            /\ src_order' = AddSourceOrder(src_2_cmd, src_order, step.file)
            /\ cmd_2_src' = AddCommandSource(cmd_2_src, step.file, step.command)
            /\ cmd_order' = AddCommandOrder(cmd_2_src, cmd_order, step.command)
       ELSE UNCHANGED relations
  /\ i' = i + 1
  /\ UNCHANGED << setting, pc, filesystem, pools >>

\* the loop is over: on to the three clear_file calls
LoadDone ==
  /\ pc = "load"
  /\ i > Len(buildlog)
  /\ pc' = "clear"
  /\ i' = 1
  /\ UNCHANGED << setting, relations, filesystem, pools >>

(***************************************************************************)
(* OutputReset.                                                            *)
(***************************************************************************)
\* (variant) the file is left alone
clear_file_keeping(fs, filename) == fs

\* os.remove removes the file; or the file is missing, or it is there and
\* cannot be removed: os.remove raises OSError, which clear_file swallows
clear_file(fs, filename) ==
  IF filename \in undeletable THEN fs ELSE [fs EXCEPT ![filename] = Absent]

\* lines 93-95 together
OutputReset(fs) ==
  clear_file(clear_file(clear_file(fs, AggregateFiles[1]), AggregateFiles[2]),
             AggregateFiles[3])

\* (variant) an OSError for a missing file is not swallowed: the script ends
\* with a traceback
ClearStepRaising ==
  /\ pc = "clear"
  /\ IF ~aggr[AggregateFiles[i]].exists
     THEN /\ pc' = "aborted"
          /\ UNCHANGED << aggr, i >>
     ELSE /\ aggr' = clear_file(aggr, AggregateFiles[i])
          /\ IF i < Len(AggregateFiles)
             THEN /\ i' = i + 1
                  /\ pc' = pc
             ELSE /\ i' = 1
                  /\ pc' = "ast_submit"
  /\ UNCHANGED << setting, relations, dirs, pools >>

\* lines 93-95, then the first pool is made
ClearStep ==
  /\ pc = "clear"
  /\ aggr' = clear_file(aggr, AggregateFiles[i])
  /\ IF i < Len(AggregateFiles)
     THEN /\ i' = i + 1
          /\ pc' = pc
     ELSE /\ i' = 1
          /\ pc' = "ast_submit"
  /\ UNCHANGED << setting, relations, dirs, pools >>

(***************************************************************************)
(* The pools.  A pool of n processes executes at most n units at a time    *)
(* and hands out the submitted tasks in submission order.  A unit that     *)
(* raises ends with its exception stored in a result nobody fetches.       *)
(***************************************************************************)
\* an external tool invocation: the program, the filtered arguments, the
\* source files and the -o target put on its command line
Invocation(tool, id, args, sources, out) ==
  [tool |-> tool, id |-> id, args |-> args, sources |-> sources, out |-> out]

Returned(pool, id, raised) == [pool |-> pool, id |-> id, raised |-> raised]

\* ast_workers.apply_async(generate_ast, [source]) for the next source
AstSubmit ==
  /\ pc = "ast_submit"
  /\ i <= Len(src_order)
  /\ ast_queue' = Append(ast_queue, [id |-> i, source |-> src_order[i]])
  /\ submitted' = [submitted EXCEPT !.ast = Append(@, src_order[i])]
  /\ i' = i + 1
  /\ UNCHANGED << setting, pc, relations, filesystem, ast_running,
                  funcmap_queue, funcmap_running, returned, calls >>

\* ast_workers.close()
AstClose ==
  /\ pc = "ast_submit"
  /\ i > Len(src_order)
  /\ pc' = "ast_join"
  /\ UNCHANGED << setting, i, relations, filesystem, pools >>

\* (variant) the script goes on without waiting for the first pool
AstJoinNoWait ==
  /\ pc = "ast_join"
  /\ pc' = "funcmap_submit"
  /\ i' = 1
  /\ UNCHANGED << setting, relations, filesystem, pools >>

\* ast_workers.join() returns when every task has been taken and has
\* returned; the second pool is made
AstJoin ==
  /\ pc = "ast_join"
  /\ ast_queue = <<>>
  /\ ast_running = {}
  /\ pc' = "funcmap_submit"
  /\ i' = 1
  /\ UNCHANGED << setting, relations, filesystem, pools >>

\* (variant) the unit uses the last command recorded for its file
AstStartLastCommand ==
  /\ ast_queue # <<>>
  /\ Cardinality(ast_running) < threads
  /\ LET task == Head(ast_queue)
         last == CHOOSE j \in 1..Len(buildlog) :
                   /\ buildlog[j].file = task.source
                   /\ \A m \in (j+1)..Len(buildlog) : buildlog[m].file # task.source
         cmd  == buildlog[last].command
         args == Arguments[cmd]
     IN  /\ ast_running' = ast_running \cup
              {[id |-> task.id, source |-> task.source, at |-> "arch",
                args |-> args, arch |-> <<>>]}
         /\ calls' = calls \cup
              {Invocation("clang-cmdline-arch-extractor", task.id, args,
                          <<task.source>>, <<>>)}
  /\ ast_queue' = Tail(ast_queue)
  /\ UNCHANGED << setting, pc, i, relations, filesystem,
                  funcmap_queue, funcmap_running, returned, submitted >>

\* (variant) a task is taken whether or not a process is free
AstStartUnbounded ==
  /\ ast_queue # <<>>
  /\ LET task == Head(ast_queue)
         cmd  == src_2_cmd[task.source]
         args == Arguments[cmd]
     IN  /\ ast_running' = ast_running \cup
              {[id |-> task.id, source |-> task.source, at |-> "arch",
                args |-> args, arch |-> <<>>]}
         /\ calls' = calls \cup
              {Invocation("clang-cmdline-arch-extractor", task.id, args,
                          <<task.source>>, <<>>)}
  /\ ast_queue' = Tail(ast_queue)
  /\ UNCHANGED << setting, pc, i, relations, filesystem,
                  funcmap_queue, funcmap_running, returned, submitted >>

\* a free process of ast_workers takes the next task and runs generate_ast
\* up to the blocking check_output of the architecture extractor
AstStart ==
  /\ ast_queue # <<>>
  /\ Cardinality(ast_running) < threads
  /\ LET task == Head(ast_queue)
         cmd  == src_2_cmd[task.source]
         args == Arguments[cmd]
     IN  /\ ast_running' = ast_running \cup
              {[id |-> task.id, source |-> task.source, at |-> "arch",
                args |-> args, arch |-> <<>>]}
         /\ calls' = calls \cup
              {Invocation("clang-cmdline-arch-extractor", task.id, args,
                          <<task.source>>, <<>>)}
  /\ ast_queue' = Tail(ast_queue)
  /\ UNCHANGED << setting, pc, i, relations, filesystem,
                  funcmap_queue, funcmap_running, returned,
                  submitted >>

\* AstStart in its two steps.  A free process of ast_workers takes the next
\* task off the queue ...
AstTake ==
  /\ ast_queue # <<>>
  /\ Cardinality(ast_running) < threads
  /\ LET task == Head(ast_queue)
     IN  ast_running' = ast_running \cup
           {[id |-> task.id, source |-> task.source, at |-> "taken",
             args |-> <<>>, arch |-> <<>>]}
  /\ ast_queue' = Tail(ast_queue)
  /\ UNCHANGED << setting, pc, i, relations, filesystem,
                  funcmap_queue, funcmap_running, returned, submitted, calls >>

\* ... and, when the process gets to run, calls generate_ast, which goes up
\* to the blocking check_output of the architecture extractor
AstBegin(u) ==
  /\ u \in ast_running
  /\ u.at = "taken"
  /\ LET args == Arguments[src_2_cmd[u.source]]
     IN  /\ ast_running' = (ast_running \ {u}) \cup
              {[u EXCEPT !.at = "arch", !.args = args]}
         /\ calls' = calls \cup
              {Invocation("clang-cmdline-arch-extractor", u.id, args,
                          <<u.source>>, <<>>)}
  /\ UNCHANGED << setting, pc, i, relations, filesystem, ast_queue,
                  funcmap_queue, funcmap_running, returned, submitted >>

\* (variant) a unit that raises takes its process down with it: the
\* process is never free again
AstReturnLosingProcess(u, raised) ==
  /\ ast_running' = IF raised
                     THEN (ast_running \ {u}) \cup {[u EXCEPT !.at = "dead"]}
                     ELSE ast_running \ {u}
  /\ returned' = returned \cup {Returned("ast", u.id, raised)}

\* the unit u leaves its process, normally or by an exception
AstReturn(u, raised) ==
  /\ ast_running' = ast_running \ {u}
  /\ returned' = returned \cup {Returned("ast", u.id, raised)}

\* (variant) the first failure ends the pool: the tasks not yet taken are
\* dropped
ArchReturnAborting(u) ==
  /\ u \in ast_running
  /\ u.at = "arch"
  /\ \/ /\ ast_running' = ast_running \ {u}
        /\ returned' = returned \cup {Returned("ast", u.id, TRUE)}
        /\ ast_queue' = << >>
     \/ /\ \E arch_output \in ArchOutputs :
             ast_running' = (ast_running \ {u}) \cup
               {[u EXCEPT !.at = "makedirs", !.arch = Architecture[arch_output]]}
        /\ UNCHANGED << returned, ast_queue >>
  /\ UNCHANGED << setting, pc, i, relations, filesystem,
                  funcmap_queue, funcmap_running, calls, submitted >>

\* the architecture extractor returns: a non-zero exit status makes
\* check_output raise; otherwise the architecture is cut out of the output
ArchReturn(u) ==
  /\ u \in ast_running
  /\ u.at = "arch"
  /\ \/ /\ AstReturn(u, TRUE)
     \/ /\ \E arch_output \in ArchOutputs :
             ast_running' = (ast_running \ {u}) \cup
               {[u EXCEPT !.at = "makedirs", !.arch = Architecture[arch_output]]}
        /\ UNCHANGED returned
  /\ UNCHANGED << setting, pc, i, relations, filesystem, ast_queue,
                  funcmap_queue, funcmap_running, calls,
                  submitted >>

\* (variant) every OSError of os.makedirs is swallowed
MakeDirsSwallowing(u) ==
  /\ u \in ast_running
  /\ u.at = "makedirs"
  /\ LET d == AstDir[u.arch, u.source] IN
       \/ /\ d \in dirs
          /\ ast_running' = (ast_running \ {u}) \cup {[u EXCEPT !.at = "call"]}
          /\ UNCHANGED << dirs, returned >>
       \/ /\ d \notin dirs
          /\ dirs' = dirs \cup {d}
          /\ ast_running' = (ast_running \ {u}) \cup {[u EXCEPT !.at = "call"]}
          /\ UNCHANGED returned
       \/ /\ d \notin dirs
          /\ ast_running' = (ast_running \ {u}) \cup {[u EXCEPT !.at = "call"]}
          /\ UNCHANGED << dirs, returned >>
  /\ UNCHANGED << setting, pc, i, relations, aggr, ast_queue,
                  funcmap_queue, funcmap_running, calls,
                  submitted >>

\* os.makedirs of the artifact's directory: it exists already (tolerated),
\* it is made, or it cannot be made and the error is raised again
MakeDirs(u) ==
  /\ u \in ast_running
  /\ u.at = "makedirs"
  /\ LET d == AstDir[u.arch, u.source] IN
       \/ /\ d \in dirs
          /\ ast_running' = (ast_running \ {u}) \cup {[u EXCEPT !.at = "call"]}
          /\ UNCHANGED << dirs, returned >>
       \/ /\ d \notin dirs
          /\ dirs' = dirs \cup {d}
          /\ ast_running' = (ast_running \ {u}) \cup {[u EXCEPT !.at = "call"]}
          /\ UNCHANGED returned
       \/ /\ d \notin dirs
          /\ AstReturn(u, TRUE)
          /\ UNCHANGED dirs
  /\ UNCHANGED << setting, pc, i, relations, aggr, ast_queue,
                  funcmap_queue, funcmap_running, calls,
                  submitted >>

\* subprocess.call of the AST emitter starts
AstCall(u) ==
  /\ u \in ast_running
  /\ u.at = "call"
  /\ ast_running' = (ast_running \ {u}) \cup {[u EXCEPT !.at = "emit"]}
  /\ calls' = calls \cup
       {Invocation("clang -emit-ast", u.id, u.args, <<u.source>>,
                   AstPath[u.arch, u.source])}
  /\ UNCHANGED << setting, pc, i, relations, filesystem, ast_queue,
                  funcmap_queue, funcmap_running, returned,
                  submitted >>

\* the exit statuses of a tool
ExitStatuses == {0, 1}

\* the AST emitter returns with some exit status, which subprocess.call
\* hands back and generate_ast drops; the unit returns normally
EmitReturn(u) ==
  /\ u \in ast_running
  /\ u.at = "emit"
  /\ \E status \in ExitStatuses : AstReturn(u, FALSE)
  /\ UNCHANGED << setting, pc, i, relations, filesystem, ast_queue,
                  funcmap_queue, funcmap_running, calls,
                  submitted >>

\* funcmap_workers.apply_async(map_functions, [command]) for the next command
FuncmapSubmit ==
  /\ pc = "funcmap_submit"
  /\ i <= Len(cmd_order)
  /\ funcmap_queue' = Append(funcmap_queue, [id |-> i, command |-> cmd_order[i]])
  /\ submitted' = [submitted EXCEPT !.funcmap = Append(@, cmd_order[i])]
  /\ i' = i + 1
  /\ UNCHANGED << setting, pc, relations, filesystem, ast_queue,
                  ast_running, funcmap_running, returned, calls >>

\* funcmap_workers.close()
FuncmapClose ==
  /\ pc = "funcmap_submit"
  /\ i > Len(cmd_order)
  /\ pc' = "funcmap_join"
  /\ UNCHANGED << setting, i, relations, filesystem, pools >>

\* funcmap_workers.join(), and the script ends
FuncmapJoin ==
  /\ pc = "funcmap_join"
  /\ funcmap_queue = <<>>
  /\ funcmap_running = {}
  /\ pc' = "done"
  /\ UNCHANGED << setting, i, relations, filesystem, pools >>

\* (variant) the mapper is given only the sources whose own command this is
FuncmapStartCanonicalOnly ==
  /\ funcmap_queue # <<>>
  /\ Cardinality(funcmap_running) < threads
  /\ LET task    == Head(funcmap_queue)
         args    == Arguments[task.command]
         sources == SelectSeq(cmd_2_src[task.command],
                              LAMBDA f : src_2_cmd[f] = task.command)
     IN  /\ funcmap_running' = funcmap_running \cup
              {[id |-> task.id, command |-> task.command, at |-> "call"]}
         /\ calls' = calls \cup
              {Invocation("clang-func-mapping", task.id, args, sources, xtuindir)}
  /\ funcmap_queue' = Tail(funcmap_queue)
  /\ UNCHANGED << setting, pc, i, relations, filesystem, ast_queue,
                  ast_running, returned, submitted >>

\* (variant) a lock around the function mapper: a unit starts only when no
\* other unit runs
FuncmapStartSerialized ==
  /\ funcmap_queue # <<>>
  /\ funcmap_running = {}
  /\ LET task    == Head(funcmap_queue)
         args    == Arguments[task.command]
         sources == cmd_2_src[task.command]
     IN  /\ funcmap_running' = funcmap_running \cup
              {[id |-> task.id, command |-> task.command, at |-> "call"]}
         /\ calls' = calls \cup
              {Invocation("clang-func-mapping", task.id, args, sources, xtuindir)}
  /\ funcmap_queue' = Tail(funcmap_queue)
  /\ UNCHANGED << setting, pc, i, relations, filesystem, ast_queue,
                  ast_running, returned, submitted >>

\* a free process of funcmap_workers takes the next task and runs
\* map_functions up to the blocking subprocess.call of the function mapper
FuncmapStart ==
  /\ funcmap_queue # <<>>
  /\ Cardinality(funcmap_running) < threads
  /\ LET task    == Head(funcmap_queue)
         args    == Arguments[task.command]
         sources == cmd_2_src[task.command]
     IN  /\ funcmap_running' = funcmap_running \cup
              {[id |-> task.id, command |-> task.command, at |-> "call"]}
         /\ calls' = calls \cup
              {Invocation("clang-func-mapping", task.id, args, sources, xtuindir)}
  /\ funcmap_queue' = Tail(funcmap_queue)
  /\ UNCHANGED << setting, pc, i, relations, filesystem, ast_queue,
                  ast_running, returned,
                  submitted >>

\* FuncmapStart in its two steps.  A free process of funcmap_workers takes
\* the next task off the queue ...
FuncmapTake ==
  /\ funcmap_queue # <<>>
  /\ Cardinality(funcmap_running) < threads
  /\ LET task == Head(funcmap_queue)
     IN  funcmap_running' = funcmap_running \cup
           {[id |-> task.id, command |-> task.command, at |-> "taken"]}
  /\ funcmap_queue' = Tail(funcmap_queue)
  /\ UNCHANGED << setting, pc, i, relations, filesystem, ast_queue,
                  ast_running, returned, submitted, calls >>

\* ... and, when the process gets to run, calls map_functions, which goes
\* up to the blocking subprocess.call of the function mapper
FuncmapBegin(u) ==
  /\ u \in funcmap_running
  /\ u.at = "taken"
  /\ funcmap_running' = (funcmap_running \ {u}) \cup {[u EXCEPT !.at = "call"]}
  /\ calls' = calls \cup
       {Invocation("clang-func-mapping", u.id, Arguments[u.command],
                   cmd_2_src[u.command], xtuindir)}
  /\ UNCHANGED << setting, pc, i, relations, filesystem, ast_queue,
                  ast_running, funcmap_queue, returned, submitted >>

\* the function mapper returns; its exit status is dropped.  It has
\* appended to the three aggregate files, or it has failed before writing
FuncmapReturn(u) ==
  /\ u \in funcmap_running
  /\ u.at = "call"
  /\ funcmap_running' = funcmap_running \ {u}
  /\ returned' = returned \cup {Returned("funcmap", u.id, FALSE)}
  /\ \/ aggr' = [f \in AggregateNames |->
                   [exists |-> TRUE, by |-> aggr[f].by \cup {u.id}]]
     \/ UNCHANGED aggr
  /\ UNCHANGED << setting, pc, i, relations, dirs, ast_queue,
                  ast_running, funcmap_queue, calls,
                  submitted >>

(***************************************************************************)
(* cc-bug-stats.py, from its "runs" query on, when the runs are named with *)
(* -n and histograms are off.                                              *)
(***************************************************************************)
\* the runs the server may know and the user may name
RunNames == {"r1", "r2"}

\* what call_command returns for a query: a text with 'Connection refused'
\* in it, another text that is no JSON, or a JSON document
NoReply == [kind |-> "none", runs |-> {}]

RunsReplies ==
  { [kind |-> "refused", runs |-> {}], [kind |-> "not json", runs |-> {}] }
    \cup { [kind |-> "json", runs |-> S] : S \in SUBSET RunNames }

\* a result record: its bugPathLength is a number (<<n>>) or None (<< >>)
ResultRecords == [bugPathLength : { << >>, <<1>> }]

ResultsReplies ==
  { [kind |-> "refused", results |-> << >>], [kind |-> "not json", results |-> << >>] }
    \cup { [kind |-> "json", results |-> r] : r \in BoundedSeq(ResultRecords, MaxResults) }

\* any([True if bpl is None else False for bpl in bug_path_lengths])
AnyNone(results) ==
  \E k \in 1..Len(results) : results[k].bugPathLength = << >>

\* the pipeline variables while cc-bug-stats.py is looked at
PipelineOff ==
  /\ buildlog = << >>
  /\ threads = 1
  /\ pc = "off"
  /\ i = 1
  /\ src_2_cmd = << >>
  /\ src_order = << >>
  /\ cmd_2_src = << >>
  /\ cmd_order = << >>
  /\ aggr = [f \in AggregateNames |-> Absent]
  /\ undeletable = {}
  /\ dirs = {}
  /\ ast_queue = << >>
  /\ ast_running = {}
  /\ funcmap_queue = << >>
  /\ funcmap_running = {}
  /\ submitted = [ast |-> << >>, funcmap |-> << >>]
  /\ returned = {}
  /\ calls = {}

pipeline ==
  << buildlog, threads, pc, i, relations, filesystem, undeletable, pools >>

\* lines 120-144: the "runs" query.  A refused connection and a reply that
\* is no JSON end the script with status 1; otherwise the named runs that
\* exist on the server are selected, in the order they were named
RunsQuery ==
  /\ stage = "runs"
  /\ \E reply \in RunsReplies :
       /\ runs_reply' = reply
       /\ IF reply.kind # "json"
          THEN /\ stage' = "exited"
               /\ exit_code' = "1"
               /\ UNCHANGED project_names
          ELSE /\ stage' = "results"
               /\ project_names' = SelectSeq(names, LAMBDA p : p \in reply.runs)
               /\ UNCHANGED exit_code
  /\ UNCHANGED << names, project, queried, reported, pipeline >>

\* (variant) a result record without its metric only skips the run
ResultsQueryTolerant ==
  /\ stage = "results"
  /\ project <= Len(project_names)
  /\ \E reply \in ResultsReplies :
       /\ queried' = Append(queried, [project |-> project_names[project],
                                      reply |-> reply])
       /\ IF reply.kind # "json" \/ AnyNone(reply.results)
          THEN /\ project' = project + 1
               /\ UNCHANGED << stage, exit_code, reported >>
          ELSE IF reply.results = << >>
          THEN /\ stage' = "exited"
               /\ exit_code' = "1"
               /\ UNCHANGED << project, reported >>
          ELSE /\ reported' = Append(reported, project_names[project])
               /\ project' = project + 1
               /\ UNCHANGED << stage, exit_code >>
  /\ UNCHANGED << names, runs_reply, project_names, pipeline >>

\* lines 225-248: one iteration of "for project in project_names".  A
\* reply that is no JSON (a refused connection included) raises ValueError
\* in json.loads: the error is printed and the loop continues.  A record
\* whose bugPathLength is None ends the script with status 2.  Otherwise
\* calculate_metrics prints the metrics; on an empty list it divides by
\* zero and the script ends with a traceback (status 1).
ResultsQuery ==
  /\ stage = "results"
  /\ project <= Len(project_names)
  /\ \E reply \in ResultsReplies :
       /\ queried' = Append(queried, [project |-> project_names[project],
                                      reply |-> reply])
       /\ IF reply.kind # "json"
          THEN /\ project' = project + 1
               /\ UNCHANGED << stage, exit_code, reported >>
          ELSE IF AnyNone(reply.results)
          THEN /\ stage' = "exited"
               /\ exit_code' = "2"
               /\ UNCHANGED << project, reported >>
          ELSE IF reply.results = << >>
          THEN /\ stage' = "exited"
               /\ exit_code' = "1"
               /\ UNCHANGED << project, reported >>
          ELSE /\ reported' = Append(reported, project_names[project])
               /\ project' = project + 1
               /\ UNCHANGED << stage, exit_code >>
  /\ UNCHANGED << names, runs_reply, project_names, pipeline >>

\* the loop is over and the script ends
ResultsDone ==
  /\ stage = "results"
  /\ project > Len(project_names)
  /\ stage' = "exited"
  /\ exit_code' = "0"
  /\ UNCHANGED << names, runs_reply, project_names, project, queried, reported,
                  pipeline >>

(***************************************************************************)
(* Specifications.                                                         *)
(***************************************************************************)
\* cc-bug-stats.py is not run
BugStatsOff ==
  /\ names = << >>
  /\ stage = "off"
  /\ runs_reply = NoReply
  /\ project_names = << >>
  /\ project = 1
  /\ queried = << >>
  /\ reported = << >>
  /\ exit_code = "none"

\* the state before the loading loop, for the database b
InitWith(b) ==
  /\ BugStatsOff
  /\ buildlog = b
  /\ pc = "load"
  /\ i = 1
  /\ src_2_cmd = << >>
  /\ src_order = << >>
  /\ cmd_2_src = << >>
  /\ cmd_order = << >>
  /\ dirs = {}
  /\ ast_queue = << >>
  /\ ast_running = {}
  /\ funcmap_queue = << >>
  /\ funcmap_running = {}
  /\ submitted = [ast |-> << >>, funcmap |-> << >>]
  /\ returned = {}
  /\ calls = {}

Init ==
  /\ \E b \in BoundedSeq(SourceRecords, MaxRecords) : InitWith(b)
  /\ threads \in 1..MaxThreads
  /\ undeletable = {}
  /\ aggr \in {[f \in AggregateNames |-> Absent], [f \in AggregateNames |-> Stale]}

\* a step of some unit of the first pool / of the second pool
ArchReturns   == \E u \in ast_running : ArchReturn(u)
MakesDirs     == \E u \in ast_running : MakeDirs(u)
AstCalls      == \E u \in ast_running : AstCall(u)
EmitReturns   == \E u \in ast_running : EmitReturn(u)
FuncmapReturns == \E u \in funcmap_running : FuncmapReturn(u)

Next ==
  \/ LoadStep
  \/ LoadDone
  \/ ClearStep
  \/ AstSubmit
  \/ AstClose
  \/ AstJoin
  \/ FuncmapSubmit
  \/ FuncmapClose
  \/ FuncmapJoin
  \/ AstStart
  \/ ArchReturns
  \/ MakesDirs
  \/ AstCalls
  \/ EmitReturns
  \/ FuncmapStart
  \/ FuncmapReturns

Spec == Init /\ [][Next]_vars

\* the loading loop alone, over longer databases
InitLoad ==
  /\ \E b \in BoundedSeq(Records, MaxLoadRecords) : InitWith(b)
  /\ threads = 1
  /\ undeletable = {}
  /\ aggr = [f \in AggregateNames |-> Absent]

LoadSpec == InitLoad /\ [][LoadStep]_vars

\* the pipeline on a database of one record, whose command string is any of
\* ArgCommands: generate_ast and map_functions apply get_command_arguments
\* to it
InitArgs ==
  /\ \E c \in ArgCommands : InitWith(<< [file |-> F_a, command |-> c] >>)
  /\ threads = 1
  /\ undeletable = {}
  /\ aggr = [f \in AggregateNames |-> Absent]

ArgsSpec == InitArgs /\ [][Next]_vars

\* the pipeline on databases that mix source files with other files
InitFilter ==
  /\ \E b \in BoundedSeq(FilterRecords, MaxRecords) : InitWith(b)
  /\ threads = 1
  /\ undeletable = {}
  /\ aggr = [f \in AggregateNames |-> Absent]

FilterSpec == InitFilter /\ [][Next]_vars

\* the pipeline in an XTU directory where each aggregate file is missing,
\* left by an earlier run, or left by an earlier run and not removable
InitReset ==
  /\ \E b \in BoundedSeq(ResetRecords, MaxRecords) : InitWith(b)
  /\ threads = 1
  /\ aggr \in [AggregateNames -> {Absent, Stale}]
  /\ undeletable \in SUBSET {f \in AggregateNames : aggr[f] = Stale}

ResetSpec == InitReset /\ [][Next]_vars

\* the script from its start, the database not yet opened
InitStart ==
  /\ BugStatsOff
  /\ buildlog = << >>
  /\ pc = "open"
  /\ i = 1
  /\ src_2_cmd = << >>
  /\ src_order = << >>
  /\ cmd_2_src = << >>
  /\ cmd_order = << >>
  /\ dirs = {}
  /\ ast_queue = << >>
  /\ ast_running = {}
  /\ funcmap_queue = << >>
  /\ funcmap_running = {}
  /\ submitted = [ast |-> << >>, funcmap |-> << >>]
  /\ returned = {}
  /\ calls = {}
  /\ threads = 1
  /\ undeletable = {}
  /\ aggr \in {[f \in AggregateNames |-> Absent], [f \in AggregateNames |-> Stale]}

StartNext ==
  \/ LoadDatabase
  \/ LoadStep
  \/ LoadDone
  \/ ClearStep
  \/ AstSubmit
  \/ AstClose
  \/ AstJoin
  \/ FuncmapSubmit
  \/ FuncmapClose
  \/ FuncmapJoin
  \/ AstStart
  \/ ArchReturns
  \/ MakesDirs
  \/ AstCalls
  \/ EmitReturns
  \/ FuncmapStart
  \/ FuncmapReturns

StartSpec == InitStart /\ [][StartNext]_vars

\* the pipeline with the taking of a task and the start of its unit as
\* two steps, so that processes that have taken their tasks begin in either
\* order
InitOrder ==
  /\ \E b \in BoundedSeq(OrderRecords, MaxRecords) : InitWith(b)
  /\ threads \in 1..MaxThreads
  /\ undeletable = {}
  /\ aggr = [f \in AggregateNames |-> Absent]

AstBegins     == \E u \in ast_running : AstBegin(u)
FuncmapBegins == \E u \in funcmap_running : FuncmapBegin(u)

OrderNext ==
  \/ LoadStep
  \/ LoadDone
  \/ ClearStep
  \/ AstSubmit
  \/ AstClose
  \/ AstJoin
  \/ FuncmapSubmit
  \/ FuncmapClose
  \/ FuncmapJoin
  \/ AstTake
  \/ AstBegins
  \/ ArchReturns
  \/ MakesDirs
  \/ AstCalls
  \/ EmitReturns
  \/ FuncmapTake
  \/ FuncmapBegins
  \/ FuncmapReturns

OrderSpec == InitOrder /\ [][OrderNext]_vars

\* cc-bug-stats.py, about to make its "runs" query
InitBugStats ==
  /\ PipelineOff
  /\ names \in BoundedSeq(RunNames, MaxNames) \ { << >> }
  /\ stage = "runs"
  /\ runs_reply = NoReply
  /\ project_names = << >>
  /\ project = 1
  /\ queried = << >>
  /\ reported = << >>
  /\ exit_code = "none"

BugStatsNext ==
  \/ RunsQuery
  \/ ResultsQuery
  \/ ResultsDone

BugStatsSpec == InitBugStats /\ [][BugStatsNext]_vars

\* the pipeline when whatever can take a step eventually does: the script
\* runs, a free pool process takes a waiting task, and every external tool
\* returns
FairSpec == Spec /\ WF_vars(Next)

(***************************************************************************)
(* Vocabulary of the properties.                                           *)
(***************************************************************************)
ArchExtractor == "clang-cmdline-arch-extractor"
AstEmitter    == "clang -emit-ast"
FuncMapper    == "clang-func-mapping"

CallsOf(tool) == {c \in calls : c.tool = tool}

HasReturned(pool, id) == \E r \in returned : r.pool = pool /\ r.id = id
HasRaised(pool, id) == Returned(pool, id, TRUE) \in returned

NoDuplicates(seq) ==
  \A j, k \in 1..Len(seq) : seq[j] = seq[k] => j = k

IsPrefix(p, seq) == Len(p) <= Len(seq) /\ p = SubSeq(seq, 1, Len(p))

\* the number of records the loading loop has been through
Loaded == IF pc = "load" THEN i - 1 ELSE Len(buildlog)

\* the positions of the accepted records among the first n
Accepted(n) == {j \in 1..n : IsSource[buildlog[j].file]}

\* the files of the accepted records among the first n that carry the
\* command cmd, in the order of the records
RECURSIVE RecordedUnder(_, _)
RecordedUnder(cmd, n) ==
  IF n = 0 THEN << >>
  ELSE IF IsSource[buildlog[n].file] /\ buildlog[n].command = cmd
  THEN Append(RecordedUnder(cmd, n - 1), buildlog[n].file)
  ELSE RecordedUnder(cmd, n - 1)

\* the command of the earliest accepted record among the first n for file f
FirstCommand(f, n) ==
  LET first == CHOOSE j \in Accepted(n) :
                 /\ buildlog[j].file = f
                 /\ \A m \in Accepted(n) : buildlog[m].file = f => j <= m
  IN  buildlog[first].command

RECURSIVE SumOfLengths(_, _)
SumOfLengths(f, keys) ==
  IF keys = {} THEN 0
  ELSE LET k == CHOOSE x \in keys : TRUE
       IN  Len(f[k]) + SumOfLengths(f, keys \ {k})

PhaseTwoEntered == pc \in {"funcmap_submit", "funcmap_join", "done"}

(***************************************************************************)
(* C1 -- Phase barrier.  Once any map_functions unit has started (its      *)
(* function-mapping subprocess launched), every source has been submitted  *)
(* to the first pool, no generate_ast unit is waiting or executing, and    *)
(* every submitted generate_ast unit has returned.                         *)
(***************************************************************************)
PhaseBarrier ==
  (funcmap_running # {} \/ CallsOf(FuncMapper) # {})
    => /\ submitted.ast = src_order
       /\ ast_queue = << >>
       /\ ast_running = {}
       /\ \A k \in 1..Len(submitted.ast) : HasReturned("ast", k)

\* a mapper runs after two generate_ast units, one of which got as far as
\* its AST emission
PhaseBarrierWitness ==
  /\ funcmap_running # {}
  /\ Len(submitted.ast) = 2
  /\ CallsOf(AstEmitter) # {}
  /\ HasReturned("ast", 1) /\ HasReturned("ast", 2)

(***************************************************************************)
(* C2 -- Failure isolation.  Whatever units fail: the script can always    *)
(* take a step until it has ended; a unit that has returned, raising or    *)
(* not, no longer occupies a process of its pool; the second phase is      *)
(* entered only when every source's unit has been started and has          *)
(* returned; and the script ends only when every command's unit has been   *)
(* started and has returned.                                               *)
(***************************************************************************)
FailureIsolation ==
  /\ pc # "done" => ENABLED Next
  /\ \A u \in ast_running : ~HasReturned("ast", u.id)
  /\ \A u \in funcmap_running : ~HasReturned("funcmap", u.id)
  /\ PhaseTwoEntered =>
       \A k \in 1..Len(src_order) :
         /\ \E c \in CallsOf(ArchExtractor) : c.id = k /\ c.sources = <<src_order[k]>>
         /\ HasReturned("ast", k)
  /\ pc = "done" =>
       \A k \in 1..Len(cmd_order) :
         /\ \E c \in CallsOf(FuncMapper) : c.id = k
         /\ HasReturned("funcmap", k)

\* the script has ended although the first generate_ast unit raised and a
\* function mapper wrote nothing; the second generate_ast unit ran its
\* emission all the same
FailureIsolationWitness ==
  /\ pc = "done"
  /\ HasRaised("ast", 1)
  /\ \E c \in CallsOf(AstEmitter) : c.id = 2
  /\ Len(cmd_order) = 2
  /\ aggr["cfg.txt"].by = {2}

(***************************************************************************)
(* C3 -- One generate_ast unit per source.  The sources submitted to the   *)
(* first pool are the sources of src_order, each once and in that order;   *)
(* every architecture-extraction and AST-emission invocation is for the    *)
(* source of its unit and carries the filtered arguments of that source's  *)
(* canonical command src_2_cmd[source], which is the first command the     *)
(* database records for it; no source gets two invocations of the same     *)
(* tool; and once the first pool has drained every source has had its      *)
(* architecture extraction and, unless its unit raised, exactly one AST    *)
(* emission.                                                               *)
(***************************************************************************)
OneUnitPerSource ==
  /\ IsPrefix(submitted.ast, src_order)
  /\ NoDuplicates(submitted.ast)
  /\ pc \notin {"load", "clear", "ast_submit"} => submitted.ast = src_order
  /\ \A c \in CallsOf(ArchExtractor) \cup CallsOf(AstEmitter) :
       /\ c.id \in 1..Len(submitted.ast)
       /\ c.sources = <<submitted.ast[c.id]>>
       /\ c.args = Arguments[src_2_cmd[c.sources[1]]]
       /\ src_2_cmd[c.sources[1]] = FirstCommand(c.sources[1], Len(buildlog))
  /\ \A c1, c2 \in calls :
       (c1.tool = c2.tool /\ c1.tool # FuncMapper /\ c1.sources = c2.sources)
         => c1 = c2
  /\ PhaseTwoEntered =>
       \A k \in 1..Len(src_order) :
         /\ Cardinality({c \in CallsOf(ArchExtractor) :
                           c.sources = <<src_order[k]>>}) = 1
         /\ ~HasRaised("ast", k) =>
              Cardinality({c \in CallsOf(AstEmitter) :
                             c.sources = <<src_order[k]>>}) = 1

\* a.cpp is recorded under CC1 and then under CC2; its unit has run both
\* tools with the arguments of CC1, and the first pool has drained
OneUnitPerSourceWitness ==
  /\ buildlog = << [file |-> F_a, command |-> CC1], [file |-> F_a, command |-> CC2] >>
  /\ PhaseTwoEntered
  /\ \E c \in CallsOf(AstEmitter) :
       c.sources = <<F_a>> /\ c.args = Arguments[CC1]
  /\ Arguments[CC1] # Arguments[CC2]

(***************************************************************************)
(* C4 -- One map_functions unit per command.  The commands submitted to    *)
(* the second pool are the commands of cmd_order, each once and in that    *)
(* order; every function-mapper invocation is passed the whole group       *)
(* cmd_2_src[command], which lists the file of every accepted record       *)
(* carrying that command in record order (also files whose canonical       *)
(* command is another one), and the filtered arguments of the command; no  *)
(* command gets two invocations, and at the end every command has had one. *)
(***************************************************************************)
OneMapPerCommand ==
  /\ IsPrefix(submitted.funcmap, cmd_order)
  /\ NoDuplicates(submitted.funcmap)
  /\ pc \in {"funcmap_join", "done"} => submitted.funcmap = cmd_order
  /\ \A c \in CallsOf(FuncMapper) :
       /\ c.id \in 1..Len(submitted.funcmap)
       /\ LET command == submitted.funcmap[c.id] IN
            /\ c.sources = cmd_2_src[command]
            /\ c.sources = RecordedUnder(command, Len(buildlog))
            /\ c.args = Arguments[command]
  /\ \A c1, c2 \in CallsOf(FuncMapper) : c1.id = c2.id => c1 = c2
  /\ pc = "done" =>
       \A k \in 1..Len(cmd_order) :
         Cardinality({c \in CallsOf(FuncMapper) : c.id = k}) = 1

\* the mapper has been invoked for CC2 with a.cpp, whose canonical command
\* is CC1
OneMapPerCommandWitness ==
  /\ pc = "done"
  /\ Len(cmd_order) = 2
  /\ \E c \in CallsOf(FuncMapper) :
       /\ submitted.funcmap[c.id] = CC2
       /\ c.sources = <<F_a>>
       /\ src_2_cmd[F_a] = CC1

(***************************************************************************)
(* C5 -- Loader cardinalities.  After any number of records has been       *)
(* loaded, of which N are accepted, naming M distinct files and K distinct *)
(* commands: src_2_cmd has M entries, cmd_2_src has K entries, and the     *)
(* lengths of the groups of cmd_2_src add up to N.                         *)
(***************************************************************************)
LoaderCardinalities ==
  LET A == Accepted(Loaded) IN
    /\ Cardinality(DOMAIN src_2_cmd) = Cardinality({buildlog[j].file : j \in A})
    /\ Cardinality(DOMAIN cmd_2_src) = Cardinality({buildlog[j].command : j \in A})
    /\ SumOfLengths(cmd_2_src, DOMAIN cmd_2_src) = Cardinality(A)

\* a whole database of four records has been loaded: three accepted (N = 3),
\* two files (M = 2), two commands (K = 2), one file twice under one command
LoaderCardinalitiesWitness ==
  /\ Loaded = Len(buildlog) /\ Len(buildlog) = 4
  /\ Cardinality(Accepted(Loaded)) = 3
  /\ Cardinality(DOMAIN src_2_cmd) = 2
  /\ Cardinality(DOMAIN cmd_2_src) = 2
  /\ \E c \in DOMAIN cmd_2_src : cmd_2_src[c] = <<F_a, F_a>>

(***************************************************************************)
(* C6 -- First command wins.  After any number of records has been loaded, *)
(* the keys of src_2_cmd are the files of the accepted records, and        *)
(* src_2_cmd[f] is the command of the earliest accepted record for f: a    *)
(* later record for f does not change it.  Every accepted record, a later  *)
(* one for a known file included, has put its file in the group of its own *)
(* command.                                                                *)
(***************************************************************************)
FirstCommandWins ==
  LET A == Accepted(Loaded) IN
    /\ DOMAIN src_2_cmd = {buildlog[j].file : j \in A}
    /\ \A f \in DOMAIN src_2_cmd : src_2_cmd[f] = FirstCommand(f, Loaded)
    /\ \A j \in A :
         /\ buildlog[j].command \in DOMAIN cmd_2_src
         /\ \E k \in 1..Len(cmd_2_src[buildlog[j].command]) :
              cmd_2_src[buildlog[j].command][k] = buildlog[j].file
    /\ \A c \in DOMAIN cmd_2_src : Len(cmd_2_src[c]) = Len(RecordedUnder(c, Loaded))

\* a.cpp came under CC1 and later under CC2: CC1 stays its command, and
\* the CC2 group holds it
FirstCommandWinsWitness ==
  /\ Loaded = Len(buildlog) /\ Len(buildlog) >= 2
  /\ buildlog[1] = [file |-> F_a, command |-> CC1]
  /\ buildlog[Len(buildlog)] = [file |-> F_a, command |-> CC2]
  /\ src_2_cmd[F_a] = CC1
  /\ cmd_2_src[CC2] = <<F_a>>

(***************************************************************************)
(* C7 -- The loader scenario.  The database of the scenario: two records   *)
(* for a.cpp under CC1, one for b.cpp under CC1, one for a.cpp under CC2.  *)
(***************************************************************************)
Scenario ==
  << [file |-> F_a, command |-> CC1], [file |-> F_a, command |-> CC1],
     [file |-> F_b, command |-> CC1], [file |-> F_a, command |-> CC2] >>

ScenarioLoaded == buildlog = Scenario /\ Loaded = Len(Scenario)

ScenarioSourceToCommand == (F_a :> CC1) @@ (F_b :> CC1)

\* C7 as stated: the scenario loads to src_2_cmd = {a.cpp: CC1, b.cpp: CC1}
\* and cmd_2_src = {CC1: [a.cpp, b.cpp], CC2: [a.cpp]}, a.cpp once under CC1
ScenarioAsStated ==
  ScenarioLoaded =>
    /\ src_2_cmd = ScenarioSourceToCommand
    /\ cmd_2_src = (CC1 :> <<F_a, F_b>>) @@ (CC2 :> <<F_a>>)

\* C7 as amended: the scenario loads to src_2_cmd = {a.cpp: CC1, b.cpp: CC1}
\* and cmd_2_src = {CC1: [a.cpp, a.cpp, b.cpp], CC2: [a.cpp]}: the CC1 group
\* lists a.cpp once for each of its two records
ScenarioAmended ==
  ScenarioLoaded =>
    /\ src_2_cmd = ScenarioSourceToCommand
    /\ src_order = <<F_a, F_b>>
    /\ cmd_2_src = (CC1 :> <<F_a, F_a, F_b>>) @@ (CC2 :> <<F_a>>)
    /\ cmd_order = <<CC1, CC2>>

\* the four records of the scenario have been loaded
ScenarioWitness == ScenarioLoaded /\ Len(cmd_2_src[CC1]) = 3

(***************************************************************************)
(* C8 -- Bounded external load.  The units executing in the two pools      *)
(* together, and so the external tools running, are never more than the    *)
(* pool width, and generate_ast units never execute while map_functions    *)
(* units do.                                                               *)
(***************************************************************************)
\* the units blocked in an external tool
InSubprocess ==
  {u \in ast_running : u.at \in {"arch", "emit"}}
    \cup {u \in funcmap_running : u.at = "call"}

BoundedLoad ==
  /\ Cardinality(ast_running) + Cardinality(funcmap_running) <= threads
  /\ Cardinality(InSubprocess) <= threads
  /\ ~(ast_running # {} /\ funcmap_running # {})

\* the one process of a pool of width 1 is busy in a tool while a second
\* task waits
BoundedLoadWitness ==
  /\ threads = 1
  /\ Cardinality(InSubprocess) = 1
  /\ ast_queue # << >>

(***************************************************************************)
(* C9 -- Phase 1 writers never collide.  Whenever AST emissions have been  *)
(* started for two distinct sources of src_order that resolved to the same *)
(* architecture, the artifact paths given to them as -o differ.            *)
(***************************************************************************)
WritersNeverCollide ==
  \A c1, c2 \in CallsOf(AstEmitter) : \A arch \in Archs :
    ( /\ c1.sources # c2.sources
      /\ c1.out = AstPath[arch, c1.sources[1]]
      /\ c2.out = AstPath[arch, c2.sources[1]] )
      => c1.out # c2.out

(***************************************************************************)
(* C10 -- Termination.  When whatever can take a step eventually does, the *)
(* script reaches its end, with every source submitted to the first pool   *)
(* and every command to the second, both pools empty, and every submitted  *)
(* unit started and returned.                                              *)
(***************************************************************************)
Finished ==
  /\ pc = "done"
  /\ submitted = [ast |-> src_order, funcmap |-> cmd_order]
  /\ ast_queue = << >> /\ ast_running = {}
  /\ funcmap_queue = << >> /\ funcmap_running = {}
  /\ \A k \in 1..Len(src_order) :
       HasReturned("ast", k) /\ \E c \in CallsOf(ArchExtractor) : c.id = k
  /\ \A k \in 1..Len(cmd_order) :
       HasReturned("funcmap", k) /\ \E c \in CallsOf(FuncMapper) : c.id = k

Termination == <>Finished

\* the script has ended after two units in each phase, one of which raised
TerminationWitness ==
  /\ Finished
  /\ Len(src_order) = 2 /\ Len(cmd_order) = 2
  /\ \E k \in 1..2 : HasRaised("ast", k)

(***************************************************************************)
(* C11 -- CommandArgumentFilter.  For every command string, the arguments  *)
(* get_command_arguments hands to the three tools are, in their original   *)
(* order, exactly the whitespace-separated tokens that come strictly after *)
(* the first token without '=' and that do not match the source-suffix     *)
(* pattern; every token up to and including that first '='-free token is   *)
(* dropped, so that "CC -DX=1 foo.cpp -O2" gives ["-DX=1", "-O2"]; and the *)
(* result is empty when every token contains '='.                          *)
(***************************************************************************)
\* the position of the first token without '=', 0 when every token has one
CommandWord(toks) ==
  IF \A k \in 1..Len(toks) : Contains(toks[k], "=") THEN 0
  ELSE CHOOSE k \in 1..Len(toks) :
         /\ ~Contains(toks[k], "=")
         /\ \A m \in 1..(k-1) : Contains(toks[m], "=")

\* the tokens after the command word that are no source files
TokensAfterWord(toks) ==
  IF CommandWord(toks) = 0 THEN << >>
  ELSE SelectSeq(SubSeq(toks, CommandWord(toks) + 1, Len(toks)),
                 LAMBDA t : ~src_pattern(t))

\* the same, for every command string the tools are run with
SpecifiedArguments == [c \in ArgCommands |-> TokensAfterWord(Split(c))]

\* the command strings all of whose tokens contain '='
AssignmentsOnly ==
  {c \in ArgCommands : \A k \in 1..Len(Split(c)) : Contains(Split(c)[k], "=")}

CommandArgumentFilter ==
  /\ Arguments[CCExample] = <<T_DX, T_O2>>
  /\ \A c \in calls :
       LET cmd == buildlog[1].command IN
         /\ c.args = SpecifiedArguments[cmd]
         /\ cmd \in AssignmentsOnly => c.args = << >>

\* the function mapper and the AST emitter have been run for
\* "CC -DX=1 foo.cpp -O2" with the arguments -DX=1 -O2
CommandArgumentFilterWitness ==
  /\ buildlog[1].command = CCExample
  /\ \E c \in CallsOf(FuncMapper) : c.args = <<T_DX, T_O2>>
  /\ \E c \in CallsOf(AstEmitter) : c.args = <<T_DX, T_O2>>

(***************************************************************************)
(* C12 -- Extension filtering.  A record whose file does not end in .c,    *)
(* .cc, .cxx or .cpp (in any case of the letters) leaves src_2_cmd,        *)
(* cmd_2_src, src_order and cmd_order as they are: every file in the       *)
(* relations ends in one of the suffixes, and every command in them, and   *)
(* every command a map_functions unit is submitted or run for, is the      *)
(* command of a record whose file ends in one of the suffixes.             *)
(***************************************************************************)
\* the file names that end in .c, .cc, .cxx or .cpp, case-insensitively
EndsInSourceSuffix ==
  [f \in Paths |-> \E suf \in SrcSuffixes : EndsWith(LowerStr(f), suf)]

\* the commands of the records whose file ends in a source suffix
CommandsOfSources ==
  {buildlog[j].command :
     j \in {k \in 1..Len(buildlog) : EndsInSourceSuffix[buildlog[k].file]}}

ExtensionFiltering ==
  /\ \A f \in DOMAIN src_2_cmd : EndsInSourceSuffix[f]
  /\ \A k \in 1..Len(src_order) : EndsInSourceSuffix[src_order[k]]
  /\ \A c \in DOMAIN cmd_2_src :
       /\ c \in CommandsOfSources
       /\ \A k \in 1..Len(cmd_2_src[c]) : EndsInSourceSuffix[cmd_2_src[c][k]]
  /\ \A k \in 1..Len(cmd_order) : cmd_order[k] \in CommandsOfSources
  /\ \A k \in 1..Len(submitted.funcmap) :
       submitted.funcmap[k] \in CommandsOfSources
  /\ \A u \in funcmap_running : u.command \in CommandsOfSources

(***************************************************************************)
(* C13 -- Aggregate outputs start empty.                                   *)
(***************************************************************************)
\* the runs of function mappers that have returned
MappersReturned == {r.id : r \in {x \in returned : x.pool = "funcmap"}}

FromEarlierRun(f) == EarlierRun \in aggr[f].by

\* C13 as stated: clear_file has been called for the three aggregate files
\* before any generate_ast unit is submitted; while the first pool is fed
\* and runs each of the three files is absent; the files hold only what
\* function mappers of this run that have returned appended; and at the
\* end of the run they hold nothing from before the run
AggregatesStartAbsent ==
  /\ (submitted.ast # << >> \/ calls # {}) => pc \notin {"load", "clear"}
  /\ pc \in {"ast_submit", "ast_join"} => \A f \in AggregateNames : ~aggr[f].exists
  /\ \A f \in AggregateNames : aggr[f].by \ {EarlierRun} \subseteq MappersReturned
  /\ pc = "done" => \A f \in AggregateNames : ~FromEarlierRun(f)

\* C13 as amended: clear_file has been called for the three aggregate
\* files before any generate_ast unit is submitted; while the first pool is
\* fed and runs, each of the three files is absent unless os.remove failed
\* on it although it exists, in which case it is as the earlier run left
\* it; the files are appended to only by function mappers of this run; and
\* after OutputReset a file holds content from before the run only if it
\* could not be removed
AggregatesReset ==
  /\ (submitted.ast # << >> \/ calls # {}) => pc \notin {"load", "clear"}
  /\ pc = "clear" =>
       \A k \in 1..(i - 1) :
         aggr[AggregateFiles[k]] =
           IF AggregateFiles[k] \in undeletable THEN Stale ELSE Absent
  /\ pc \in {"ast_submit", "ast_join"} =>
       \A f \in AggregateNames :
         aggr[f] = IF f \in undeletable THEN Stale ELSE Absent
  /\ \A f \in AggregateNames : aggr[f].by \ {EarlierRun} \subseteq MappersReturned
  /\ pc \notin {"load", "clear"} =>
       \A f \in AggregateNames : FromEarlierRun(f) => f \in undeletable

\* the run has ended: cfg.txt could not be removed and holds the earlier
\* run's content and this run's; definedFns.txt holds this run's only
AggregatesResetWitness ==
  /\ pc = "done"
  /\ undeletable = {"cfg.txt"}
  /\ aggr["cfg.txt"].by = {EarlierRun, 1}
  /\ aggr["definedFns.txt"].by = {1}

(***************************************************************************)
(* C14 -- OutputReset is idempotent and error-free.                        *)
(***************************************************************************)
\* C14 as stated: the three clear_file calls never end the script with an
\* error; applied twice they leave the aggregate files as applied once;
\* applied where all three are absent they change nothing; and they leave
\* all three files absent
ResetLeavesAllAbsent ==
  /\ pc # "aborted"
  /\ OutputReset(OutputReset(aggr)) = OutputReset(aggr)
  /\ (\A f \in AggregateNames : aggr[f] = Absent) => OutputReset(aggr) = aggr
  /\ OutputReset(aggr) = [f \in AggregateNames |-> Absent]

\* C14 as amended: the three clear_file calls never end the script with an
\* error; applied twice they leave the aggregate files as applied once;
\* applied to a file that is absent, clear_file changes nothing; and they
\* leave each file absent, except a file os.remove fails on although it
\* exists, which is left as it was.  After the three calls of the script a
\* further OutputReset changes nothing.
ResetIdempotent ==
  /\ pc # "aborted"
  /\ OutputReset(OutputReset(aggr)) = OutputReset(aggr)
  /\ \A f \in AggregateNames : aggr[f] = Absent => clear_file(aggr, f) = aggr
  /\ OutputReset(aggr) =
       [f \in AggregateNames |-> IF f \in undeletable THEN aggr[f] ELSE Absent]
  /\ pc \in {"ast_submit", "ast_join"} => OutputReset(aggr) = aggr

\* OutputReset has run where cfg.txt was absent or removable and
\* definedFns.txt could not be removed; nothing has been submitted yet
ResetIdempotentWitness ==
  /\ pc = "ast_submit" /\ i = 1
  /\ Len(src_order) = 2
  /\ undeletable = {"definedFns.txt"}
  /\ aggr["cfg.txt"] = Absent
  /\ aggr["definedFns.txt"] = Stale

(***************************************************************************)
(* C15 -- Fatal load.  When the compilation database cannot be read or     *)
(* parsed, the script ends there and takes no further step: the step that  *)
(* ends it changes neither the aggregate files nor the directories of the  *)
(* artifacts, and in the state it ends in no clear_file call has been      *)
(* made, nothing has been loaded, no unit has been submitted, taken or     *)
(* run, and no external tool has been invoked.                             *)
(***************************************************************************)
NothingDone ==
  /\ buildlog = << >>
  /\ src_order = << >> /\ cmd_order = << >>
  /\ submitted = [ast |-> << >>, funcmap |-> << >>]
  /\ ast_queue = << >> /\ ast_running = {}
  /\ funcmap_queue = << >> /\ funcmap_running = {}
  /\ returned = {}
  /\ calls = {}
  /\ dirs = {}

FatalLoad ==
  /\ [](pc = "aborted" => NothingDone)
  /\ [][ /\ pc # "aborted"
         /\ pc' = "aborted" => (pc = "open" /\ UNCHANGED << aggr, dirs, calls >>) ]_vars

\* the script has ended on a database it could not load; the aggregate
\* files of the earlier run are still there
FatalLoadWitness ==
  /\ pc = "aborted"
  /\ \A f \in AggregateNames : aggr[f] = Stale

(***************************************************************************)
(* C16 -- Fatal conditions of cc-bug-stats.py.                             *)
(***************************************************************************)
\* the script has ended with an error status
Aborted == stage = "exited" /\ exit_code # "0"

\* the k-th "results" query was the last thing the script did
LastProcessed(k) == k = Len(queried)

\* what holds of the "runs" query and of a record without its metric
FatalRunsAndMetric ==
  /\ runs_reply.kind \in {"refused", "not json"} =>
       (Aborted /\ queried = << >> /\ reported = << >>)
  /\ \A k \in 1..Len(queried) :
       /\ queried[k].project = project_names[k]
       /\ AnyNone(queried[k].reply.results) =>
            (Aborted /\ LastProcessed(k) /\ exit_code = "2")

\* C16 as stated: a refused connection or a reply that is no JSON, to the
\* "runs" query and to any "results" query, and a result record without
\* its metric, end the script with an error status, and no later run is
\* queried or reported
EveryConditionFatal ==
  /\ FatalRunsAndMetric
  /\ \A k \in 1..Len(queried) :
       queried[k].reply.kind \in {"refused", "not json"} =>
         (Aborted /\ LastProcessed(k))

\* C16 as amended: a refused connection or a reply that is no JSON to the
\* "runs" query, and a result record without its metric, end the script
\* with an error status, and no later run is queried or reported; a refused
\* connection or a reply that is no JSON to a "results" query does not end
\* the script: that run is not reported and the loop goes on to the next
\* selected run
FatalConditions ==
  /\ FatalRunsAndMetric
  /\ \A k \in 1..Len(queried) :
       queried[k].reply.kind \in {"refused", "not json"} =>
         /\ LastProcessed(k) => ~Aborted
         /\ LastProcessed(k) /\ stage = "results" => project = k + 1
         /\ \A j \in 1..Len(reported) :
              reported[j] = queried[k].project =>
                \E m \in 1..Len(queried) :
                  m # k /\ queried[m].project = queried[k].project

\* the "results" query for the first run gave no JSON, the second run was
\* queried all the same, and a record without its metric ended the script
FatalConditionsWitness ==
  /\ Len(queried) = 2
  /\ queried[1].reply.kind = "not json"
  /\ AnyNone(queried[2].reply.results)
  /\ Aborted

(***************************************************************************)
(* C17 -- No serialization of Phase 2 writers.  Whenever a map_functions   *)
(* task waits and a process of the second pool is free, the task can be    *)
(* started, whether or not other function mappers are running; and every   *)
(* running function mapper can return, appending to the three aggregate    *)
(* files, whatever the others do: nothing but the pool width keeps two     *)
(* mappers from running at the same time, and nothing orders their         *)
(* appends.  With a width of 2 and two commands, two of them do run at the *)
(* same time (the witness).                                                *)
(***************************************************************************)
NoSerialization ==
  /\ (funcmap_queue # << >> /\ Cardinality(funcmap_running) < threads)
       => ENABLED FuncmapStart
  /\ \A u \in funcmap_running : ENABLED FuncmapReturn(u)
  /\ \A u \in funcmap_running :
       \E c \in CallsOf(FuncMapper) : c.id = u.id /\ c.out = xtuindir

\* a pool of width 2, two commands: both function mappers are running,
\* each given the same XTU directory, and neither has returned
NoSerializationWitness ==
  /\ threads >= 2
  /\ Len(cmd_order) >= 2
  /\ Cardinality(funcmap_running) = 2
  /\ \A u \in funcmap_running : ~HasReturned("funcmap", u.id)
  /\ \A f \in AggregateNames : aggr[f] = Absent

(***************************************************************************)
(* C18 -- Order relations.  After any number of records has been loaded,   *)
(* src_order has no duplicates, its elements are the keys of src_2_cmd,    *)
(* and it lists the accepted files in the order of their first occurrence  *)
(* in the database; the same holds of cmd_order, cmd_2_src and the         *)
(* commands.  The units are submitted to each pool in exactly that order.  *)
(* The order in which they start and complete is not constrained: a unit   *)
(* whose task has been taken can begin, and a unit that has begun can take *)
(* its next step and return, whatever the other units of the pool have     *)
(* done; a later unit does start and complete before an earlier one starts *)
(* (the witness).                                                          *)
(***************************************************************************)
Elements(seq) == {seq[k] : k \in 1..Len(seq)}

\* the files of the accepted records among the first n, each once, in the
\* order of their first occurrence
RECURSIVE FilesByFirstOccurrence(_)
FilesByFirstOccurrence(n) ==
  IF n = 0 THEN << >>
  ELSE IF /\ IsSource[buildlog[n].file]
          /\ \A m \in Accepted(n - 1) : buildlog[m].file # buildlog[n].file
  THEN Append(FilesByFirstOccurrence(n - 1), buildlog[n].file)
  ELSE FilesByFirstOccurrence(n - 1)

\* the same for the commands of the accepted records
RECURSIVE CommandsByFirstOccurrence(_)
CommandsByFirstOccurrence(n) ==
  IF n = 0 THEN << >>
  ELSE IF /\ IsSource[buildlog[n].file]
          /\ \A m \in Accepted(n - 1) : buildlog[m].command # buildlog[n].command
  THEN Append(CommandsByFirstOccurrence(n - 1), buildlog[n].command)
  ELSE CommandsByFirstOccurrence(n - 1)

\* the unit u of the first pool can take its next step
AstUnitCanStep(u) ==
  ENABLED (AstBegin(u) \/ ArchReturn(u) \/ MakeDirs(u) \/ AstCall(u) \/ EmitReturn(u))

\* the unit u of the second pool can take its next step
FuncmapUnitCanStep(u) == ENABLED (FuncmapBegin(u) \/ FuncmapReturn(u))

OrderRelations ==
  /\ NoDuplicates(src_order)
  /\ Elements(src_order) = DOMAIN src_2_cmd
  /\ src_order = FilesByFirstOccurrence(Loaded)
  /\ NoDuplicates(cmd_order)
  /\ Elements(cmd_order) = DOMAIN cmd_2_src
  /\ cmd_order = CommandsByFirstOccurrence(Loaded)
  /\ IsPrefix(submitted.ast, src_order)
  /\ IsPrefix(submitted.funcmap, cmd_order)
  /\ pc \in {"ast_join", "funcmap_submit", "funcmap_join", "done"}
       => submitted.ast = src_order
  /\ pc \in {"funcmap_join", "done"} => submitted.funcmap = cmd_order
  /\ \A u \in ast_running : AstUnitCanStep(u)
  /\ \A u \in funcmap_running : FuncmapUnitCanStep(u)

\* b.cpp comes first in the database and a.cpp second; the unit of a.cpp
\* (the second submitted) has started and returned while the unit of b.cpp
\* (the first submitted) has not begun
OrderRelationsWitness ==
  /\ src_order = <<F_b, F_a>>
  /\ submitted.ast = <<F_b, F_a>>
  /\ \E u \in ast_running : u.id = 1 /\ u.at = "taken"
  /\ \E c \in CallsOf(AstEmitter) : c.id = 2
  /\ HasReturned("ast", 2)

(***************************************************************************)
(* C19 -- Step order within a generate_ast unit.  A unit runs the          *)
(* architecture extraction, then makes the artifact's directory, then      *)
(* starts the AST emission: every running unit has had its extraction      *)
(* started; a unit at or past the start of its emission has the directory  *)
(* of its artifact in place; an emission is started only for a unit whose  *)
(* extraction was started, and is given the artifact path of the resolved  *)
(* architecture.  A unit stops at the first step that raises: a unit that  *)
(* has raised never had an emission started, so nothing was written to its *)
(* artifact path.  The exit status of the emission is ignored: a unit      *)
(* whose emission was started returns without raising, and every unit that *)
(* returned without raising went through its emission.                     *)
(***************************************************************************)
EmissionOf(id) == {c \in CallsOf(AstEmitter) : c.id = id}

StepOrder ==
  /\ \A u \in ast_running :
       /\ \E a \in CallsOf(ArchExtractor) : a.id = u.id /\ a.sources = <<u.source>>
       /\ u.at \in {"call", "emit"} => AstDir[u.arch, u.source] \in dirs
       /\ u.at = "emit" =>
            EmissionOf(u.id) =
              {Invocation(AstEmitter, u.id, u.args, <<u.source>>,
                          AstPath[u.arch, u.source])}
       /\ u.at \in {"arch", "makedirs", "call"} => EmissionOf(u.id) = {}
  /\ \A c \in CallsOf(AstEmitter) :
       /\ \E a \in CallsOf(ArchExtractor) : a.id = c.id /\ a.sources = c.sources
       /\ \E arch \in Archs :
            /\ c.out = AstPath[arch, c.sources[1]]
            /\ AstDir[arch, c.sources[1]] \in dirs
       /\ ~HasRaised("ast", c.id)
  /\ \A r \in returned :
       r.pool = "ast" => (r.raised <=> EmissionOf(r.id) = {})

\* the first unit has raised and no emission was started for it; the second
\* went through its emission and returned without raising
StepOrderWitness ==
  /\ HasRaised("ast", 1)
  /\ EmissionOf(1) = {}
  /\ EmissionOf(2) # {}
  /\ Returned("ast", 2, FALSE) \in returned

(***************************************************************************)
(* C20 -- Cross-relation consistency.  After any number of records has     *)
(* been loaded, every group of cmd_2_src is non-empty and lists only keys  *)
(* of src_2_cmd, and for every key f of src_2_cmd the command src_2_cmd[f] *)
(* is a key of cmd_2_src whose group contains f.  Hence, once the first    *)
(* pool has drained every source has had a generate_ast unit started, and  *)
(* at the end of the script every source has been passed to at least one   *)
(* function-mapper invocation.                                             *)
(***************************************************************************)
CrossRelationConsistency ==
  /\ \A c \in DOMAIN cmd_2_src :
       /\ cmd_2_src[c] # << >>
       /\ Elements(cmd_2_src[c]) \subseteq DOMAIN src_2_cmd
  /\ \A f \in DOMAIN src_2_cmd :
       /\ src_2_cmd[f] \in DOMAIN cmd_2_src
       /\ f \in Elements(cmd_2_src[src_2_cmd[f]])
  /\ PhaseTwoEntered =>
       \A f \in DOMAIN src_2_cmd :
         \E c \in CallsOf(ArchExtractor) : c.sources = <<f>>
  /\ pc = "done" =>
       \A f \in DOMAIN src_2_cmd :
         \E c \in CallsOf(FuncMapper) : f \in Elements(c.sources)

\* the script has ended; a.cpp, recorded under CC1 and under CC2, had its
\* generate_ast unit and was passed to the function mapper of each command
CrossRelationConsistencyWitness ==
  /\ pc = "done"
  /\ src_2_cmd = (F_a :> CC1)
  /\ DOMAIN cmd_2_src = {CC1, CC2}
  /\ \E c \in CallsOf(ArchExtractor) : c.sources = <<F_a>>
  /\ Cardinality({c \in CallsOf(FuncMapper) : F_a \in Elements(c.sources)}) = 2

=============================================================================
